---- MODULE Spec2Model ----
(***************************************************************************)
(* GCopy desktop: the clipboard history store (models/db.ts, Dexie), the   *)
(* clipboard monitor and commands (clipboard.rs), the sync engine          *)
(* (sync.rs) and the frontend listeners (SyncClipboard.tsx, App.tsx,       *)
(* HistoryList.tsx).                                                       *)
(***************************************************************************)
EXTENDS Integers, Sequences, FiniteSets, TLC

\* ------------------------------------------------------------------ bounds
\* store operations (addHistoryItem, togglePin, deleteHistoryItem calls) issued
\* in one behaviour
MaxStoreOps == 3
\* the history rows a user acts on (pin star, trash button) have ids 1..MaxTargetId
MaxTargetId == 2
\* addHistoryItem / togglePin calls that may be in flight at once
MaxCalls == 2
\* user copies and clipboard commands (read_clipboard, write_clipboard) issued
\* in one behaviour
MaxMonitorOps == 2
\* distinct clipboard payloads
MaxData == 2
\* timer ticks, manual and listener syncs, auto-sync toggles and user copies
\* in one behaviour of the sync engine
MaxSysOps == 3
\* the indices the remote endpoint answers with are 1..MaxIndex
MaxIndex == 2

\* --------------------------------------------------------- program constants
\* "Limit to 50 unpinned items": the threshold of addHistoryItem
MAX_UNPINNED == 50
\* the page size of the live history query of SyncClipboard
LIVE_LIMIT == 50

VARIABLES
  history,      \* db.history: the set of stored HistoryItem rows
  nextId,       \* the next value of the auto-incremented primary key (++id)
  now,          \* Date.now()
  addCall,      \* addHistoryItem invocations, by call slot
  togCall,      \* togglePin invocations, by call slot
  clip,         \* the system clipboard: the representations it holds
  pendingNotifs,\* native change notifications raised and not yet handled
  watcherAlive, \* the watcher thread running Handler::on_clipboard_change
  stopped,      \* ClipboardMonitor::stop has returned
  handlers,     \* the handlers start() has added to the watcher
  chan,         \* the mpsc channel from the handler (tx) to the emitting thread (rx)
  emitted,      \* the clipboard-changed events emitted and not yet handled by a listener
  lastRead,     \* the result of the latest read_clipboard command, and its number
  autoSyncEnabled, \* SyncState.auto_sync_enabled
  lastLocalIndex,  \* SyncState.last_local_index
  lastServerIndex, \* SyncState.last_server_index
  isSyncing,       \* SyncState.is_syncing
  timer,        \* the periodic task of SyncEngine::start: where it is, the X-Index it sent
  snCall,       \* sync_now invocations, by slot: 0 the button and tray, k the listener k
  tglCall,      \* toggle_auto_sync invocations, by slot
  syncEvents,   \* the events emitted to the frontend and not yet delivered
  skipped,      \* how many ticks, and how many sync_now calls, found is_syncing set,
                \* and how many ticks found auto_sync_enabled false
  errorLog,     \* how many "Pull failed" lines the periodic task has logged
  lsn,          \* clipboard-changed listener invocations of the frontend, by slot
  ui,           \* the frontend's syncStatus
  view,         \* the result of the latest history query (live query or getHistory)
  replies,      \* the answers of get_sync_status on their way to the frontend
  nOps          \* the operations the environment has issued so far

storeVars == <<history, nextId, now, addCall, togCall>>
monitorVars == <<clip, pendingNotifs, watcherAlive, stopped, handlers, chan, emitted, lastRead>>
syncStateVars == <<autoSyncEnabled, lastLocalIndex, lastServerIndex, isSyncing>>
engineVars == <<syncStateVars, timer, snCall, tglCall, syncEvents, skipped, errorLog>>
uiVars == <<lsn, ui, view, replies>>
vars == <<storeVars, monitorVars, engineVars, uiVars, nOps>>

\* ------------------------------------------------------------- JS values
\* A JavaScript value as stored in a row: its type and its value.
JSBool(b) == [t |-> "boolean", v |-> b]
JSNumber(n) == [t |-> "number", v |-> n]

\* !x of JavaScript: a boolean, the negation of x's truthiness.
JSTruthy(x) == IF x.t = "boolean" THEN x.v ELSE x.v # 0
JSNot(x) == JSBool(~JSTruthy(x))

\* The types IndexedDB accepts as keys. A row whose indexed property holds a
\* value of another type (a boolean, undefined, an object) has no entry in
\* that index.
ValidKeyTypes == {"number", "string", "date", "binary", "array"}

\* ------------------------------------------------------------ HistoryItem
ItemTypes == {"text", "screenshot", "file"}
CallSlots == 1..MaxCalls
NoItem == [id |-> 0]

\* The rows with pinned = false, whatever the index says.
Unpinned(h) == {e \in h : ~JSTruthy(e.pinned)}
Pinned(h) == {e \in h : JSTruthy(e.pinned)}

\* db.history.where('pinned').equals(key): the rows the index 'pinned' holds
\* under that key.
WherePinnedEqualsMutAll(h, key) == h
WherePinnedEquals(h, key) ==
  {e \in h : /\ e.pinned.t \in ValidKeyTypes
             /\ e.pinned.t = key.t
             /\ e.pinned.v = key.v}

\* .sortBy('createdAt') of a collection read through an index: the rows in
\* primary key order, then sorted (stably) by createdAt. Its first element.
Before(e, f) ==
  \/ e.createdAt < f.createdAt
  \/ e.createdAt = f.createdAt /\ e.id <= f.id
SortByCreatedAtFirst(S) == CHOOSE e \in S : \A f \in S : Before(e, f)

\* ------------------------------------------------------------------ Init
IdleAdd == [pc |-> "idle", item |-> NoItem, cnt |-> 0, oldest |-> 0]
IdleTog == [pc |-> "idle", id |-> 0, pinned |-> JSBool(FALSE)]

\* A store as n sequential appends of text leave it, the first two in the
\* same millisecond, with the rows of P pinned afterwards.
PreloadedAt(i) == IF i = 1 THEN 1 ELSE i - 1
Preloaded(n, P) ==
  {[id |-> i, type |-> "text", data |-> 0, createdAt |-> PreloadedAt(i),
    pinned |-> JSBool(i \in P)] : i \in 1..n}

PreloadSizes == {0, MAX_UNPINNED - 1, MAX_UNPINNED, MAX_UNPINNED + 1}

StoreInitOf(sizes, pins) ==
  /\ \E n \in sizes : \E P \in SUBSET pins :
       /\ P \subseteq 1..n
       /\ n - Cardinality(P) <= MAX_UNPINNED
       /\ history = Preloaded(n, P)
       /\ nextId = n + 1
       /\ now = PreloadedAt(n + 1)
  /\ addCall = [p \in CallSlots |-> IdleAdd]
  /\ togCall = [p \in CallSlots |-> IdleTog]

StoreInit(sizes) == StoreInitOf(sizes, 1..2)
StoreInitPreloaded == StoreInit(PreloadSizes)
StoreInitEmpty == StoreInit({0})

\* ------------------------------------------------------- addHistoryItem
\* The key the '++id' primary key gives a row added without an id: the
\* current number of the table's key generator, which no delete lowers.
MaxId(h) ==
  IF h = {} THEN 0
  ELSE LET e == CHOOSE x \in h : \A y \in h : y.id <= x.id IN e.id
NextKeyAfterLargest(h, n) == MaxId(h) + 1
NextKey(h, n) == n

\* The caller builds the item (createdAt: Date.now(), pinned: false) and calls
\* addHistoryItem, which runs up to its first await.
AddBegin(p, ty, d, dt) ==
  /\ addCall[p].pc = "idle"
  /\ \A r \in CallSlots : r < p => addCall[r].pc # "idle"
  /\ now' = now + dt
  /\ addCall' = [addCall EXCEPT ![p] =
       [pc |-> "count",
        item |-> [type |-> ty, data |-> d, createdAt |-> now + dt,
                  pinned |-> JSBool(FALSE)],
        cnt |-> 0, oldest |-> 0]]
  /\ UNCHANGED <<history, nextId, togCall>>

\* await db.history.where('pinned').equals(0).count(), and the test of it
AddCount(p) ==
  /\ addCall[p].pc = "count"
  /\ LET c == Cardinality(WherePinnedEquals(history, JSNumber(0))) IN
       addCall' = [addCall EXCEPT ![p].cnt = c,
                                  ![p].pc = IF c >= MAX_UNPINNED THEN "sort" ELSE "add"]
  /\ UNCHANGED <<history, nextId, now, togCall>>

\* The call resumes after an await: the sortBy query with the test of its
\* result, the delete of oldest[0], or the final db.history.add(item).
AddResume(p) ==
  /\ addCall[p].pc \in {"sort", "delete", "add"}
  /\ CASE addCall[p].pc = "sort" ->
            LET S == WherePinnedEquals(history, JSNumber(0)) IN
            /\ addCall' = [addCall EXCEPT
                 ![p].oldest = IF S # {} THEN SortByCreatedAtFirst(S).id ELSE 0,
                 ![p].pc = IF S # {} /\ SortByCreatedAtFirst(S).id # 0
                           THEN "delete" ELSE "add"]
            /\ UNCHANGED <<history, nextId>>
       [] addCall[p].pc = "delete" ->
            /\ history' = {e \in history : e.id # addCall[p].oldest}
            /\ addCall' = [addCall EXCEPT ![p].pc = "add"]
            /\ UNCHANGED nextId
       [] addCall[p].pc = "add" ->
            /\ history' = history \cup
                 {[id |-> NextKey(history, nextId), type |-> addCall[p].item.type,
                   data |-> addCall[p].item.data,
                   createdAt |-> addCall[p].item.createdAt,
                   pinned |-> addCall[p].item.pinned]}
            /\ nextId' = NextKey(history, nextId) + 1
            /\ addCall' = [addCall EXCEPT ![p] = IdleAdd]
  /\ UNCHANGED <<now, togCall>>

\* ------------------------------------------------------------ togglePin
\* const item = await db.history.get(id); if (item) ...
TogglePinGet(q, id) ==
  /\ togCall[q].pc = "idle"
  /\ \A r \in CallSlots : r < q => togCall[r].pc # "idle"
  /\ LET found == {e \in history : e.id = id} IN
       togCall' = IF found = {} THEN togCall
                  ELSE [togCall EXCEPT ![q] =
                         [pc |-> "update", id |-> id,
                          pinned |-> (CHOOSE e \in found : TRUE).pinned]]
  /\ UNCHANGED <<history, nextId, now, addCall>>

\* await db.history.update(id, { pinned: !item.pinned }): no row, no change
TogglePinUpdate(q) ==
  /\ togCall[q].pc = "update"
  /\ history' = {IF e.id = togCall[q].id
                 THEN [e EXCEPT !.pinned = JSNot(togCall[q].pinned)]
                 ELSE e : e \in history}
  /\ togCall' = [togCall EXCEPT ![q] = IdleTog]
  /\ UNCHANGED <<nextId, now, addCall>>

\* ----------------------------------------------------- deleteHistoryItem
DeleteUnpinnedOnly(id) ==
  /\ history' = {e \in history : e.id # id \/ JSTruthy(e.pinned)}
  /\ UNCHANGED <<nextId, now, addCall, togCall>>
DeleteHistoryItem(id) ==
  /\ history' = {e \in history : e.id # id}
  /\ UNCHANGED <<nextId, now, addCall, togCall>>

\* --------------------------------------------------- the history queries
\* orderBy('createdAt'): the rows as the index createdAt holds them, by
\* createdAt and, for equal keys, by primary key.
RECURSIVE OrderByCreatedAt(_)
OrderByCreatedAt(S) ==
  IF S = {} THEN <<>>
  ELSE LET e == SortByCreatedAtFirst(S) IN <<e>> \o OrderByCreatedAt(S \ {e})

\* A sort of the collection by createdAt descending that keeps rows of equal
\* createdAt in the order of the index
RECURSIVE SortDescStable(_)
SortDescStable(q) ==
  IF q = <<>> THEN <<>>
  ELSE LET newest == CHOOSE i \in DOMAIN q :
                       /\ \A j \in DOMAIN q : q[j].createdAt <= q[i].createdAt
                       /\ \A j \in 1..(i - 1) : q[j].createdAt < q[i].createdAt
       IN <<q[newest]>> \o SortDescStable(SubSeq(q, 1, newest - 1) \o SubSeq(q, newest + 1, Len(q)))

\* .reverse(): the collection is read with a cursor of direction "prev", from
\* the last entry of the index to the first.
Reverse(q) == [i \in 1..Len(q) |-> q[Len(q) + 1 - i]]

\* .limit(n)
Limit(q, n) == SubSeq(q, 1, IF Len(q) < n THEN Len(q) ELSE n)

\* getHistory(): db.history.orderBy('createdAt').reverse().toArray()
GetHistory(h) == Reverse(OrderByCreatedAt(h))

\* The live query of SyncClipboard:
\* db.history.orderBy('createdAt').reverse().limit(50).toArray()
LiveQuery(h) == Limit(Reverse(OrderByCreatedAt(h)), LIVE_LIMIT)

\* A history query runs (the live query runs again after every change of the
\* table) and the frontend holds its result.
RunQuery(which) ==
  /\ view' = [seq |-> view.seq + 1, query |-> which,
              appending |-> {p \in CallSlots : addCall[p].pc # "idle"},
              rows |-> IF which = "live" THEN LiveQuery(history) ELSE GetHistory(history)]
  /\ UNCHANGED <<storeVars, lsn, ui, replies>>

\* ------------------------------------------------- the system clipboard
\* What the clipboard holds: a file list or not, an image (none, one that
\* converts to PNG, one that does not), a text or not; data names the payload
\* and by tells who put it there (the user, or this program through
\* write_clipboard).
DataIds == 1..MaxData
EmptyClip == [files |-> FALSE, image |-> "none", text |-> FALSE, data |-> 0, by |-> "user"]
Clips(d, who) ==
  [files : BOOLEAN, image : {"none", "ok", "bad"}, text : BOOLEAN, data : {d}, by : {who}]

\* ClipboardContent: Text(String) | Image(Vec<u8>) | File(Vec<String>)
Content(k, c) == [kind |-> k, data |-> c.data, by |-> c.by]
NoResult == [kind |-> "None", data |-> 0, by |-> "user"]

\* read_clipboard: get_files, then get_image (to_png with ?), then get_text
ReadClipboardTextFirst(c) ==
  IF c.text THEN Content("Text", c)
  ELSE IF c.files THEN Content("File", c)
  ELSE IF c.image = "ok" THEN Content("Image", c)
  ELSE Content("Err", c)
ReadClipboard(c) ==
  IF c.files THEN Content("File", c)
  ELSE IF c.image # "none"
       THEN (IF c.image = "ok" THEN Content("Image", c) ELSE Content("Err", c))
  ELSE IF c.text THEN Content("Text", c)
  ELSE Content("Err", c)

\* Handler::on_clipboard_change: get_files, then get_image (to_png().unwrap()),
\* then get_text; what it sends on tx, "None" when it sends nothing, "Panic"
\* when an unwrap fails.
HandlerResultTextFirst(c) ==
  IF c.text THEN Content("Text", c)
  ELSE IF c.files THEN Content("File", c)
  ELSE IF c.image = "ok" THEN Content("Image", c)
  ELSE Content("None", c)
HandlerResultSendsEmpty(c) ==
  IF c.files THEN Content("File", c)
  ELSE IF c.image # "none"
       THEN (IF c.image = "ok" THEN Content("Image", c) ELSE Content("Panic", c))
  ELSE Content("Text", c)
HandlerResult(c) ==
  IF c.files THEN Content("File", c)
  ELSE IF c.image # "none"
       THEN (IF c.image = "ok" THEN Content("Image", c) ELSE Content("Panic", c))
  ELSE IF c.text THEN Content("Text", c)
  ELSE Content("None", c)

\* write_clipboard(content): set_text, set_image (after from_bytes, which fails
\* on bytes that are no image), set_files. The clipboard it leaves, or the one
\* it found when it fails.
WriteSucceeds(content) == content.kind \in {"Text", "File"} \/ (content.kind = "Image" /\ content.valid)
Written(c, content) ==
  IF ~WriteSucceeds(content) THEN c
  ELSE [files |-> content.kind = "File",
        image |-> IF content.kind = "Image" THEN "ok" ELSE "none",
        text |-> content.kind = "Text",
        data |-> content.data, by |-> "self"]

MonitorInit ==
  /\ clip = EmptyClip
  /\ pendingNotifs = 0
  /\ watcherAlive = TRUE
  /\ stopped = FALSE
  /\ handlers = 1
  /\ chan = <<>>
  /\ emitted = <<>>
  /\ lastRead = [seq |-> 0, result |-> NoResult]

\* The user (or another application) copies something: the clipboard changes
\* and the operating system raises a change notification.
UserCopy(c) ==
  /\ clip' = c
  /\ pendingNotifs' = pendingNotifs + 1
  /\ UNCHANGED <<watcherAlive, stopped, handlers, chan, emitted, lastRead>>

\* The clipboard as write_clipboard(content) leaves it, and the notification
\* the change raises.
ApplyWrite(content) ==
  /\ clip' = Written(clip, content)
  /\ pendingNotifs' = IF WriteSucceeds(content) THEN pendingNotifs + 1 ELSE pendingNotifs

\* The write_clipboard command, as the frontend invokes it (handleCopy).
WriteClipboardCmd(content) ==
  /\ ApplyWrite(content)
  /\ UNCHANGED <<watcherAlive, stopped, handlers, chan, emitted, lastRead>>

\* The read_clipboard command.
ReadClipboardCmd ==
  /\ lastRead' = [seq |-> lastRead.seq + 1, result |-> ReadClipboard(clip)]
  /\ UNCHANGED <<clip, pendingNotifs, watcherAlive, stopped, handlers, chan, emitted>>

\* The watcher delivers one notification: it calls on_clipboard_change of
\* every handler added to it, each of which reads the clipboard and sends.
OnClipboardChange ==
  /\ pendingNotifs > 0
  /\ watcherAlive
  /\ ~stopped
  /\ pendingNotifs' = pendingNotifs - 1
  /\ LET r == HandlerResult(clip) IN
       /\ chan' = IF r.kind \in {"File", "Image", "Text"}
                  THEN chan \o [i \in 1..handlers |-> r] ELSE chan
       /\ watcherAlive' = (r.kind # "Panic")
  /\ UNCHANGED <<clip, stopped, handlers, emitted, lastRead>>

\* The background thread: rx.recv(), then app.emit("clipboard-changed", content)
EmitNewestFirst ==
  /\ chan # <<>>
  /\ chan' = SubSeq(chan, 1, Len(chan) - 1)
  /\ emitted' = Append(emitted, chan[Len(chan)])
  /\ UNCHANGED <<clip, pendingNotifs, watcherAlive, stopped, handlers, lastRead>>
EmitClipboardChanged ==
  /\ chan # <<>>
  /\ chan' = Tail(chan)
  /\ emitted' = Append(emitted, Head(chan))
  /\ UNCHANGED <<clip, pendingNotifs, watcherAlive, stopped, handlers, lastRead>>

\* ClipboardMonitor::start on a monitor that is running: add_handler of a new
\* Handler on the same channel, then start_watch.
MonitorStart ==
  /\ ~stopped
  /\ handlers' = handlers + 1
  /\ UNCHANGED <<clip, pendingNotifs, watcherAlive, stopped, chan, emitted, lastRead>>

\* ClipboardMonitor::stop: self.watcher.stop(), which ends the watcher's
\* deliveries; the thread spawned in new() keeps draining the channel.
MonitorStop ==
  /\ ~stopped
  /\ stopped' = TRUE
  /\ UNCHANGED <<clip, pendingNotifs, watcherAlive, handlers, chan, emitted, lastRead>>

WriteContents ==
  [kind : {"Text", "Image"}, data : DataIds, valid : BOOLEAN]

\* ------------------------------------------------------ the sync engine
\* A header value as the engine parses it: resp.headers().get("x-index")
\* .and_then(to_str).and_then(parse), None for a missing or unparsable one
\* (written -1 here).
Indices == 1..MaxIndex
HeaderIndices == {-1} \cup Indices
ParseIndex(h) == IF h < 0 THEN [some |-> FALSE, val |-> 0] ELSE [some |-> TRUE, val |-> h]
UnwrapOr(opt, dflt) == IF opt.some THEN opt.val ELSE dflt

\* The answers to GET /api/v1/clipboard: a transport failure (status 0 here),
\* 304, a server error, or 200 with X-Index, X-Type and the payload (which,
\* for a screenshot, is a decodable image or not). The payload of index i is i.
GetResponse(st, xi, xt, ok) ==
  [status |-> st, xindex |-> xi, xtype |-> xt,
   data |-> IF xi < 0 THEN 1 ELSE xi, valid |-> ok]
PullResponses ==
  {GetResponse(st, -1, "missing", TRUE) : st \in {0, 304, 500}}
  \cup {GetResponse(200, xi, xt, TRUE) :
          xi \in HeaderIndices, xt \in {"missing", "text", "screenshot"}}
  \cup {GetResponse(200, MaxIndex, xt, TRUE) : xt \in {"file", "other"}}
  \cup {GetResponse(200, MaxIndex, "screenshot", FALSE)}

IsSuccess(st) == st \in {200}

ServerError(st) == [what |-> "Server error", status |-> st]
TransportError == [what |-> "transport", status |-> 0]
NoError == [what |-> "", status |-> 0]

\* SyncEngine::pull after the request returned: what it returns, whether it
\* calls write_clipboard and with what, whether it stores new_index, whether
\* it emits Pulled.
PullOutcome(ret, err, doWrite, content, doStore, idx) ==
  [ret |-> ret, err |-> err, write |-> doWrite, content |-> content,
   store |-> doStore, index |-> idx, pulled |-> doStore]
NoContent == [kind |-> "None", data |-> 0, valid |-> TRUE]

PullResultNo304(resp) ==
  LET content == [kind |-> "Text", data |-> resp.data, valid |-> TRUE] IN
  IF resp.status = 0
  THEN PullOutcome("Err", TransportError, FALSE, NoContent, FALSE, 0)
  ELSE IF resp.status = 500
  THEN PullOutcome("Err", ServerError(resp.status), FALSE, NoContent, FALSE, 0)
  ELSE PullOutcome("Ok", NoError, TRUE, content, TRUE, UnwrapOr(ParseIndex(resp.xindex), 0))
PullResult(resp) ==
  LET new_index == UnwrapOr(ParseIndex(resp.xindex), 0)
      content_type == IF resp.xtype = "missing" THEN "text" ELSE resp.xtype
      content == [kind |-> IF content_type = "text" THEN "Text" ELSE "Image",
                  data |-> resp.data, valid |-> resp.valid]
  IN
  IF resp.status = 0
  THEN PullOutcome("Err", TransportError, FALSE, NoContent, FALSE, 0)
  ELSE IF resp.status = 304
  THEN PullOutcome("Ok", NoError, FALSE, NoContent, FALSE, 0)
  ELSE IF ~IsSuccess(resp.status)
  THEN PullOutcome("Err", ServerError(resp.status), FALSE, NoContent, FALSE, 0)
  ELSE IF content_type \notin {"text", "screenshot"}
  THEN PullOutcome("Ok", NoError, FALSE, NoContent, FALSE, 0)
  ELSE IF ~WriteSucceeds(content)
  THEN PullOutcome("Err", [what |-> "decode", status |-> 0], TRUE, content, FALSE, 0)
  ELSE PullOutcome("Ok", NoError, TRUE, content, TRUE, new_index)

\* The effect of a pull's outcome on the clipboard and on last_server_index,
\* and the events it emits.
PullEffects(r) ==
  /\ IF r.write THEN ApplyWrite(r.content) ELSE UNCHANGED <<clip, pendingNotifs>>
  /\ lastServerIndex' = IF r.store THEN r.index ELSE lastServerIndex
\* app.emit("sync-completed", SyncEvent::Pulled), app.emit("sync-completed",
\* SyncEvent::Pushed)
Completed(ty) == [channel |-> "sync-completed", type |-> ty, message |-> NoError]
PullEvents(r) == IF r.pulled THEN <<Completed("Pulled")>> ELSE <<>>

\* The answers to POST /api/v1/clipboard.
PostResponse(st, xi) == [status |-> st, xindex |-> xi]
PushResponses ==
  {PostResponse(st, -1) : st \in {0, 304, 500}}
  \cup {PostResponse(200, xi) : xi \in HeaderIndices}

\* SyncEngine::push after the request returned: what it returns, the value of
\* last_local_index it leaves, whether it emits Pushed.
PushOutcome(ret, err, idx, pushed) == [ret |-> ret, err |-> err, index |-> idx, pushed |-> pushed]
PushResultIgnoresStatus(resp, cur) ==
  PushOutcome("Ok", NoError, UnwrapOr(ParseIndex(resp.xindex), 0), TRUE)
PushResult(resp, cur) ==
  IF resp.status = 0 THEN PushOutcome("Err", TransportError, cur, FALSE)
  ELSE IF ~IsSuccess(resp.status) THEN PushOutcome("Err", ServerError(resp.status), cur, FALSE)
  ELSE PushOutcome("Ok", NoError, UnwrapOr(ParseIndex(resp.xindex), cur), TRUE)

IdleTimer == [pc |-> "sleep", reqIndex |-> 0]
IdleSync == [pc |-> "idle", reqIndex |-> 0]
IdleTgl == [pc |-> "idle", current |-> FALSE]
SyncSlots == 0..MaxCalls

EngineInit ==
  /\ autoSyncEnabled = TRUE
  /\ lastLocalIndex = 0
  /\ lastServerIndex = 0
  /\ isSyncing = FALSE
  /\ timer = IdleTimer
  /\ snCall = [c \in SyncSlots |-> IdleSync]
  /\ tglCall = [c \in CallSlots |-> IdleTgl]
  /\ syncEvents = <<>>
  /\ skipped = [tick |-> 0, syncNow |-> 0, off |-> 0]
  /\ errorLog = 0

\* is_syncing.swap(true): the value found
\* The test of auto_sync_enabled by the periodic task: whether it continues
\* to the next tick at once
TickSkipsNever(enabled) == FALSE
TickSkips(enabled) == ~enabled

SwapFindsSetNever(flag) == FALSE
SwapFindsSet(flag) == flag

\* One iteration of the periodic task up to its first request: interval.tick(),
\* the auto_sync_enabled test, is_syncing.swap(true), and pull's GET.
TimerTick ==
  /\ timer.pc = "sleep"
  /\ IF TickSkips(autoSyncEnabled)
     THEN UNCHANGED <<isSyncing, timer>>
     ELSE IF SwapFindsSet(isSyncing)
     THEN /\ isSyncing' = TRUE
          /\ UNCHANGED timer
     ELSE /\ isSyncing' = TRUE
          /\ timer' = [pc |-> "pull", reqIndex |-> lastServerIndex]
  /\ skipped' = [skipped EXCEPT
       !.off = IF ~autoSyncEnabled THEN @ + 1 ELSE @,
       !.tick = IF autoSyncEnabled /\ SwapFindsSet(isSyncing) THEN @ + 1 ELSE @]
  /\ UNCHANGED <<autoSyncEnabled, lastLocalIndex, lastServerIndex, snCall, tglCall, syncEvents, errorLog>>

\* The periodic task after its pull returned r: the loop goes on to the next
\* interval.tick(), whatever r is.
TimerAfterPullExits(r) ==
  IF r.ret = "Err" THEN [pc |-> "exited", reqIndex |-> 0] ELSE [pc |-> "sleep", reqIndex |-> 0]
TimerAfterPull(r) == [pc |-> "sleep", reqIndex |-> 0]

\* state.is_syncing.store(false, ...) after the pull, whatever it returned:
\* the value of the flag
FlagAfterPullKeptOnErr(r) == r.ret = "Err"
FlagAfterPull(r) == FALSE

\* The request of the periodic task returns: the rest of pull, the log of
\* its error, then is_syncing.store(false).
TimerPullDone(resp) ==
  /\ timer.pc = "pull"
  /\ LET r == PullResult(resp) IN
       /\ PullEffects(r)
       /\ syncEvents' = syncEvents \o PullEvents(r)
       /\ errorLog' = IF r.ret = "Err" THEN errorLog + 1 ELSE errorLog
       /\ timer' = TimerAfterPull(r)
       /\ isSyncing' = FlagAfterPull(r)
  /\ UNCHANGED <<autoSyncEnabled, lastLocalIndex, snCall, tglCall, skipped>>

\* toggle_auto_sync: the load
ToggleLoad(c) ==
  /\ tglCall[c].pc = "idle"
  /\ \A r \in CallSlots : r < c => tglCall[r].pc # "idle"
  /\ tglCall' = [tglCall EXCEPT ![c] = [pc |-> "store", current |-> autoSyncEnabled]]
  /\ UNCHANGED <<syncStateVars, timer, snCall, syncEvents, skipped, errorLog>>

\* toggle_auto_sync: the store of !current
ToggleStoreAborts(c) ==
  /\ tglCall[c].pc = "store"
  /\ autoSyncEnabled' = ~tglCall[c].current
  /\ tglCall' = [tglCall EXCEPT ![c] = IdleTgl]
  /\ isSyncing' = FALSE
  /\ timer' = IdleTimer
  /\ UNCHANGED <<lastLocalIndex, lastServerIndex, snCall, syncEvents, skipped, errorLog>>
ToggleStore(c) ==
  /\ tglCall[c].pc = "store"
  /\ autoSyncEnabled' = ~tglCall[c].current
  /\ tglCall' = [tglCall EXCEPT ![c] = IdleTgl]
  /\ UNCHANGED <<lastLocalIndex, lastServerIndex, isSyncing, timer, snCall, syncEvents, skipped, errorLog>>

\* ------------------------------------------------------------- sync_now
\* The sync_now command: a cycle of its own (Started, pull, push of the
\* clipboard's content, Completed) under the is_syncing flag, and nothing at
\* all when the flag is already set.
Event(ty) == [channel |-> "sync-event", type |-> ty, message |-> NoError]
ErrorEvent(err) == [channel |-> "sync-event", type |-> "Error", message |-> err]

\* The test-and-set of the flag by sync_now: the value found
SyncNowFindsSetNever(flag) == FALSE
SyncNowFindsSet(flag) == flag

SyncNowInvoke(c) ==
  /\ snCall[c].pc = "idle"
  /\ IF SyncNowFindsSet(isSyncing)
     THEN /\ skipped' = [skipped EXCEPT !.syncNow = @ + 1]
          /\ UNCHANGED <<isSyncing, snCall, syncEvents>>
     ELSE /\ isSyncing' = TRUE
          /\ syncEvents' = Append(syncEvents, Event("Started"))
          /\ snCall' = [snCall EXCEPT ![c] = [pc |-> "pull", reqIndex |-> lastServerIndex]]
          /\ UNCHANGED skipped
  /\ UNCHANGED <<autoSyncEnabled, lastLocalIndex, lastServerIndex, timer, tglCall, errorLog>>

\* SyncEngine::push up to its request: the payload of the content, for a file
\* the read of its first path; whether a POST is sent, and the error if not.
PushPrepare(content, readable) ==
  IF content.kind = "File" /\ ~readable
  THEN [send |-> FALSE, err |-> [what |-> "io", status |-> 0]]
  ELSE [send |-> TRUE, err |-> NoError]

\* The events of the pull of a sync_now cycle: a failure is reported.
SyncNowPullEvents(r) ==
  PullEvents(r) \o (IF r.ret = "Err" THEN <<ErrorEvent(r.err)>> ELSE <<>>)

\* The GET of a sync_now cycle returns: the rest of pull, then the push of
\* what read_clipboard gives, up to its POST; without a POST the cycle ends.
SyncNowPullDone(c, resp, readable) ==
  /\ snCall[c].pc = "pull"
  /\ LET r == PullResult(resp)
         content == ReadClipboard(IF r.write THEN Written(clip, r.content) ELSE clip)
         prep == PushPrepare(content, readable)
     IN
       /\ PullEffects(r)
       /\ IF content.kind = "Err"
          THEN /\ syncEvents' = syncEvents \o SyncNowPullEvents(r) \o <<Event("Completed")>>
               /\ isSyncing' = FALSE
               /\ snCall' = [snCall EXCEPT ![c] = IdleSync]
          ELSE IF ~prep.send
          THEN /\ syncEvents' = syncEvents \o SyncNowPullEvents(r)
                                  \o <<ErrorEvent(prep.err), Event("Completed")>>
               /\ isSyncing' = FALSE
               /\ snCall' = [snCall EXCEPT ![c] = IdleSync]
          ELSE /\ syncEvents' = syncEvents \o SyncNowPullEvents(r)
               /\ snCall' = [snCall EXCEPT ![c].pc = "push"]
               /\ UNCHANGED isSyncing
  /\ UNCHANGED <<autoSyncEnabled, lastLocalIndex, timer, tglCall, skipped, errorLog>>

\* The POST of a sync_now cycle returns: the rest of push, an Error event
\* when it failed, Completed, and the release of the flag.
SyncNowPushDone(c, resp) ==
  /\ snCall[c].pc = "push"
  /\ LET r == PushResult(resp, lastLocalIndex) IN
       /\ lastLocalIndex' = r.index
       /\ syncEvents' = syncEvents
            \o (IF r.pushed THEN <<Completed("Pushed")>> ELSE <<>>)
            \o (IF r.ret = "Err" THEN <<ErrorEvent(r.err)>> ELSE <<>>)
            \o <<Event("Completed")>>
  /\ isSyncing' = FALSE
  /\ snCall' = [snCall EXCEPT ![c] = IdleSync]
  /\ UNCHANGED <<autoSyncEnabled, lastServerIndex, timer, tglCall, skipped, errorLog>>

\* ---------------------------------------------------------- the frontend
\* A listener run: where it is, and who put the content of its event on the
\* clipboard.
IdleLsn == [pc |-> "idle", by |-> "user"]
UiInit ==
  /\ lsn = [k \in CallSlots |-> IdleLsn]
  /\ ui = [auto |-> TRUE, syncing |-> FALSE]
  /\ view = [seq |-> 0, query |-> "live", appending |-> {}, rows |-> <<>>]
  /\ replies = <<>>

\* The clipboard-changed listener after its addHistoryItem (or without one):
\* if (syncStatus.autoSyncEnabled) await invoke('sync_now')
ListenerSync(k) ==
  IF ui.auto
  THEN /\ SyncNowInvoke(k)
       /\ lsn' = [lsn EXCEPT ![k] = IF snCall'[k].pc = "idle" THEN IdleLsn
                                     ELSE [@ EXCEPT !.pc = "sync"]]
  ELSE /\ lsn' = [lsn EXCEPT ![k] = IdleLsn]
       /\ UNCHANGED <<syncStateVars, timer, snCall, tglCall, syncEvents, skipped, errorLog>>

\* A clipboard-changed event reaches the listener of SyncClipboard: Text and
\* Image are added to the history, then comes the sync.
ListenerStart(k, dt) ==
  /\ lsn[k].pc = "idle"
  /\ \A r \in CallSlots : r < k => lsn[r].pc # "idle"
  /\ emitted # <<>>
  /\ emitted' = Tail(emitted)
  /\ UNCHANGED <<clip, pendingNotifs, watcherAlive, stopped, handlers, chan, lastRead>>
  /\ LET content == Head(emitted) IN
       IF content.kind \in {"Text", "Image"}
       THEN /\ AddBegin(k, IF content.kind = "Text" THEN "text" ELSE "screenshot",
                        content.data, dt)
            /\ lsn' = [lsn EXCEPT ![k] = [pc |-> "add", by |-> content.by]]
            /\ UNCHANGED <<engineVars, ui, view, replies>>
       ELSE /\ dt = 0
            /\ ListenerSync(k)
            /\ UNCHANGED <<storeVars, ui, view, replies>>

\* The count query of the listener's addHistoryItem answers.
ListenerAddCount(k) ==
  /\ lsn[k].pc = "add"
  /\ AddCount(k)
  /\ UNCHANGED <<monitorVars, engineVars, uiVars>>

\* The listener's addHistoryItem goes on; once it has returned, the sync.
ListenerAddResume(k) ==
  /\ lsn[k].pc = "add"
  /\ AddResume(k)
  /\ IF addCall'[k].pc = "idle"
     THEN ListenerSync(k) /\ UNCHANGED <<monitorVars, ui, view, replies>>
     ELSE UNCHANGED <<monitorVars, engineVars, uiVars>>

\* The listener's sync_now call has returned.
ListenerDone(k) ==
  /\ lsn[k].pc = "sync"
  /\ snCall[k].pc = "idle"
  /\ lsn' = [lsn EXCEPT ![k] = IdleLsn]
  /\ UNCHANGED <<storeVars, monitorVars, engineVars, ui, view, replies>>

\* The sync button of SyncClipboard (disabled while syncStatus.isSyncing) and
\* the tray's "sync_now" item.
ManualSync(from) ==
  /\ from = "button" => ~ui.syncing
  /\ SyncNowInvoke(0)
  /\ UNCHANGED <<storeVars, monitorVars, uiVars>>

\* The answer of get_sync_status: the SyncState as the command reads it.
GetSyncStatus == [auto |-> autoSyncEnabled, syncing |-> isSyncing]

\* An emitted event is delivered. App's sync-event listener: Started sets
\* isSyncing, Completed clears it and replaces syncStatus by the answer of
\* get_sync_status, here an answer that arrives before anything else happens;
\* an event on a channel without a listener is dropped.
UiSyncEvent ==
  /\ syncEvents # <<>>
  /\ syncEvents' = Tail(syncEvents)
  /\ LET e == Head(syncEvents) IN
       ui' = CASE e.channel = "sync-event" /\ e.type = "Started" ->
                    [ui EXCEPT !.syncing = TRUE]
               [] e.channel = "sync-event" /\ e.type = "Completed" ->
                    GetSyncStatus
               [] OTHER -> ui
  /\ UNCHANGED <<storeVars, monitorVars, syncStateVars, timer, snCall, tglCall, skipped, errorLog, lsn, view, replies>>

\* The same delivery with the answer of get_sync_status still on its way when
\* the listener returns: Completed clears isSyncing and sends the request,
\* which the command answers from the SyncState it finds.
UiSyncEventSent ==
  /\ syncEvents # <<>>
  /\ syncEvents' = Tail(syncEvents)
  /\ LET e == Head(syncEvents) IN
       CASE e.channel = "sync-event" /\ e.type = "Started" ->
              /\ ui' = [ui EXCEPT !.syncing = TRUE]
              /\ UNCHANGED replies
         [] e.channel = "sync-event" /\ e.type = "Completed" ->
              /\ ui' = [ui EXCEPT !.syncing = FALSE]
              /\ replies' = Append(replies, GetSyncStatus)
         [] OTHER -> UNCHANGED <<ui, replies>>
  /\ UNCHANGED <<storeVars, monitorVars, syncStateVars, timer, snCall, tglCall, skipped, errorLog, lsn, view>>

\* An answer of get_sync_status arrives: .then(setSyncStatus) replaces the
\* whole syncStatus by it.
StatusReply ==
  /\ replies # <<>>
  /\ ui' = Head(replies)
  /\ replies' = Tail(replies)
  /\ UNCHANGED <<storeVars, monitorVars, engineVars, lsn, view>>

\* handleCopy of HistoryList: a click on a history row writes it back to the
\* clipboard; rows of type file are skipped.
HandleCopy(e) ==
  /\ e.type \in {"text", "screenshot"}
  /\ WriteClipboardCmd([kind |-> IF e.type = "text" THEN "Text" ELSE "Image",
                        data |-> e.data, valid |-> TRUE])
  /\ UNCHANGED <<storeVars, engineVars, uiVars>>

\* ------------------------------------------------------- specifications
NoCallInFlight ==
  /\ \A p \in CallSlots : addCall[p].pc = "idle"
  /\ \A q \in CallSlots : togCall[q].pc = "idle"

NewItemTypes == {"text", "screenshot"}

\* An operation the environment issues (a user's gesture, a caller's call, a
\* tick of the interval), at most max of them in one behaviour; a step the
\* program takes by itself.
Op(max) == nOps < max /\ nOps' = nOps + 1
Step == UNCHANGED nOps

InitStore == StoreInitPreloaded /\ MonitorInit /\ EngineInit /\ UiInit /\ nOps = 0

\* The store under appends issued one after another.
SeqAppendNext ==
  \/ \E ty \in NewItemTypes, dt \in 0..1 :
       /\ NoCallInFlight /\ AddBegin(1, ty, 1, dt) /\ Op(MaxStoreOps)
       /\ UNCHANGED <<monitorVars, engineVars, uiVars>>
  \/ AddCount(1) /\ Step /\ UNCHANGED <<monitorVars, engineVars, uiVars>>
  \/ AddResume(1) /\ Step /\ UNCHANGED <<monitorVars, engineVars, uiVars>>

SpecSeqAppend == InitStore /\ [][SeqAppendNext]_vars

\* The store under any interleaving of the steps of append, togglePin, delete.
StoreNext ==
  \/ \E p \in CallSlots, dt \in 0..1 :
       /\ AddBegin(p, "text", 1, dt) /\ Op(MaxStoreOps)
       /\ UNCHANGED <<monitorVars, engineVars, uiVars>>
  \/ \E p \in CallSlots : AddCount(p) /\ Step /\ UNCHANGED <<monitorVars, engineVars, uiVars>>
  \/ \E p \in CallSlots : AddResume(p) /\ Step /\ UNCHANGED <<monitorVars, engineVars, uiVars>>
  \/ \E q \in CallSlots, id \in 1..MaxTargetId :
       /\ TogglePinGet(q, id) /\ Op(MaxStoreOps)
       /\ UNCHANGED <<monitorVars, engineVars, uiVars>>
  \/ \E q \in CallSlots : TogglePinUpdate(q) /\ Step /\ UNCHANGED <<monitorVars, engineVars, uiVars>>
  \/ \E id \in 1..MaxTargetId :
       /\ DeleteHistoryItem(id) /\ Op(MaxStoreOps)
       /\ UNCHANGED <<monitorVars, engineVars, uiVars>>

SpecStore == InitStore /\ [][StoreNext]_vars

\* The store under appends and deletes, with the history queries running at
\* any moment.
ListSizes == {0, 3, MAX_UNPINNED}
InitList == StoreInitOf(ListSizes, {}) /\ MonitorInit /\ EngineInit /\ UiInit /\ nOps = 0

ListNext ==
  \/ \E p \in CallSlots, dt \in 0..1 :
       /\ AddBegin(p, "text", 1, dt) /\ Op(MaxStoreOps)
       /\ UNCHANGED <<monitorVars, engineVars, uiVars>>
  \/ \E p \in CallSlots : AddCount(p) /\ Step /\ UNCHANGED <<monitorVars, engineVars, uiVars>>
  \/ \E p \in CallSlots : AddResume(p) /\ Step /\ UNCHANGED <<monitorVars, engineVars, uiVars>>
  \/ \E id \in 1..MaxTargetId :
       /\ DeleteHistoryItem(id) /\ Op(MaxStoreOps)
       /\ UNCHANGED <<monitorVars, engineVars, uiVars>>
  \/ \E which \in {"live", "all"} :
       RunQuery(which) /\ Op(MaxStoreOps) /\ UNCHANGED <<monitorVars, engineVars>>

SpecList == InitList /\ [][ListNext]_vars

\* A store whose oldest rows the user may have pinned, under appends, with
\* the live query of SyncClipboard running after any of them.
PinnedListSizes == {3, MAX_UNPINNED}
InitPinnedList ==
  StoreInitOf(PinnedListSizes, 1..2) /\ MonitorInit /\ EngineInit /\ UiInit /\ nOps = 0

PinnedListNext ==
  \/ \E p \in CallSlots, dt \in 0..1 :
       /\ AddBegin(p, "text", 1, dt) /\ Op(MaxStoreOps)
       /\ UNCHANGED <<monitorVars, engineVars, uiVars>>
  \/ \E p \in CallSlots : AddCount(p) /\ Step /\ UNCHANGED <<monitorVars, engineVars, uiVars>>
  \/ \E p \in CallSlots : AddResume(p) /\ Step /\ UNCHANGED <<monitorVars, engineVars, uiVars>>
  \/ RunQuery("live") /\ Op(MaxStoreOps) /\ UNCHANGED <<monitorVars, engineVars>>

SpecPinnedList == InitPinnedList /\ [][PinnedListNext]_vars

\* The clipboard monitor and the clipboard commands, on any clipboard.
InitMonitor == StoreInitEmpty /\ MonitorInit /\ EngineInit /\ UiInit /\ nOps = 0

MonitorNext ==
  \/ \E d \in DataIds : \E c \in Clips(d, "user") :
       UserCopy(c) /\ Op(MaxMonitorOps) /\ UNCHANGED <<storeVars, engineVars, uiVars>>
  \/ \E w \in WriteContents :
       WriteClipboardCmd(w) /\ Op(MaxMonitorOps) /\ UNCHANGED <<storeVars, engineVars, uiVars>>
  \/ ReadClipboardCmd /\ Op(MaxMonitorOps) /\ UNCHANGED <<storeVars, engineVars, uiVars>>
  \/ OnClipboardChange /\ Step /\ UNCHANGED <<storeVars, engineVars, uiVars>>
  \/ EmitClipboardChanged /\ Step /\ UNCHANGED <<storeVars, engineVars, uiVars>>
  \/ MonitorStop /\ Op(MaxMonitorOps) /\ UNCHANGED <<storeVars, engineVars, uiVars>>
  \/ MonitorStart /\ Op(MaxMonitorOps) /\ UNCHANGED <<storeVars, engineVars, uiVars>>

SpecMonitor == InitMonitor /\ [][MonitorNext]_vars

\* What the user copies when the whole system runs: one representation at a time.
SysClips ==
  {c \in Clips(1, "user") :
     \/ c.files /\ c.image = "none" /\ ~c.text
     \/ ~c.files /\ c.image = "ok" /\ ~c.text
     \/ ~c.files /\ c.image = "none" /\ c.text}

Init == StoreInitEmpty /\ MonitorInit /\ EngineInit /\ UiInit /\ nOps = 0

\* A clipboard-changed listener of the frontend reaches its sync_now call.
ListenerInvoke(k) ==
  /\ lsn[k].pc = "idle"
  /\ \A r \in CallSlots : r < k => lsn[r].pc # "idle"
  /\ ListenerSync(k)
  /\ UNCHANGED <<storeVars, monitorVars, ui, view, replies>>

\* The frontend has handled every event emitted so far: its event loop runs
\* an emitted event's listeners before the next trigger or network answer.
Delivered == syncEvents = <<>>

\* The sync engine with its callers: the periodic task, the manual syncs (the
\* button and the tray), the listeners' syncs, the toggles, the user's copies,
\* and the frontend's handling of the events.
Next ==
  \/ \E c \in SysClips :
       /\ Delivered /\ UserCopy(c) /\ Op(MaxSysOps)
       /\ UNCHANGED <<storeVars, engineVars, uiVars>>
  \/ Delivered /\ TimerTick /\ Op(MaxSysOps) /\ UNCHANGED <<storeVars, monitorVars, uiVars>>
  \/ \E resp \in PullResponses :
       /\ Delivered /\ TimerPullDone(resp) /\ Step
       /\ UNCHANGED <<storeVars, watcherAlive, stopped, handlers, chan, emitted, lastRead, uiVars>>
  \/ \E from \in {"button", "tray"} : Delivered /\ ManualSync(from) /\ Op(MaxSysOps)
  \/ \E k \in CallSlots : Delivered /\ ListenerInvoke(k) /\ Op(MaxSysOps)
  \/ \E k \in CallSlots : Delivered /\ ListenerDone(k) /\ Step
  \/ \E c \in SyncSlots, resp \in PullResponses, readable \in BOOLEAN :
       /\ Delivered /\ SyncNowPullDone(c, resp, readable) /\ Step
       /\ UNCHANGED <<storeVars, watcherAlive, stopped, handlers, chan, emitted, lastRead, uiVars>>
  \/ \E c \in SyncSlots, resp \in PushResponses :
       /\ Delivered /\ SyncNowPushDone(c, resp) /\ Step
       /\ UNCHANGED <<storeVars, monitorVars, uiVars>>
  \/ \E c \in CallSlots :
       /\ Delivered /\ ToggleLoad(c) /\ Op(MaxSysOps)
       /\ UNCHANGED <<storeVars, monitorVars, uiVars>>
  \/ \E c \in CallSlots :
       /\ Delivered /\ ToggleStore(c) /\ Step
       /\ UNCHANGED <<storeVars, monitorVars, uiVars>>
  \/ UiSyncEvent /\ Step

Spec == Init /\ [][Next]_vars

\* The sync cycles alone, each request of which eventually returns, with the
\* frontend handling the events: the periodic task and the manual syncs.
TimerReturns ==
  \E resp \in PullResponses :
    /\ Delivered /\ TimerPullDone(resp) /\ Step
    /\ UNCHANGED <<storeVars, watcherAlive, stopped, handlers, chan, emitted, lastRead, uiVars>>
SyncNowPullReturns ==
  \E c \in SyncSlots, resp \in PullResponses, readable \in BOOLEAN :
    /\ Delivered /\ SyncNowPullDone(c, resp, readable) /\ Step
    /\ UNCHANGED <<storeVars, watcherAlive, stopped, handlers, chan, emitted, lastRead, uiVars>>
SyncNowPushReturns ==
  \E c \in SyncSlots, resp \in PushResponses :
    /\ Delivered /\ SyncNowPushDone(c, resp) /\ Step
    /\ UNCHANGED <<storeVars, monitorVars, uiVars>>
EventHandled == UiSyncEvent /\ Step

CycleNext ==
  \/ \E c \in SysClips :
       /\ Delivered /\ UserCopy(c) /\ Op(MaxSysOps)
       /\ UNCHANGED <<storeVars, engineVars, uiVars>>
  \/ Delivered /\ TimerTick /\ Op(MaxSysOps) /\ UNCHANGED <<storeVars, monitorVars, uiVars>>
  \/ TimerReturns
  \/ \E from \in {"button", "tray"} : Delivered /\ ManualSync(from) /\ Op(MaxSysOps)
  \/ SyncNowPullReturns
  \/ SyncNowPushReturns
  \/ EventHandled

SpecCycle ==
  /\ Init /\ [][CycleNext]_vars
  /\ WF_vars(TimerReturns) /\ WF_vars(SyncNowPullReturns)
  /\ WF_vars(SyncNowPushReturns) /\ WF_vars(EventHandled)

\* An answer of the remote endpoint that carries a payload counts among the
\* operations of the environment.
Answer(resp) == IF resp.status = 200 THEN Op(MaxSysOps) ELSE Step

\* The whole system: the user, the monitor, the frontend and the sync engine.
SystemNext ==
  \/ \E c \in SysClips :
       /\ Delivered /\ UserCopy(c) /\ Op(MaxSysOps)
       /\ UNCHANGED <<storeVars, engineVars, uiVars>>
  \/ \E e \in history : Delivered /\ HandleCopy(e) /\ Op(MaxSysOps)
  \/ Delivered /\ OnClipboardChange /\ Step /\ UNCHANGED <<storeVars, engineVars, uiVars>>
  \/ Delivered /\ EmitClipboardChanged /\ Step /\ UNCHANGED <<storeVars, engineVars, uiVars>>
  \/ \E k \in CallSlots, dt \in 0..1 : Delivered /\ ListenerStart(k, dt) /\ Step
  \/ \E k \in CallSlots : Delivered /\ ListenerAddCount(k) /\ Step
  \/ \E k \in CallSlots : Delivered /\ ListenerAddResume(k) /\ Step
  \/ \E k \in CallSlots : Delivered /\ ListenerDone(k) /\ Step
  \/ Delivered /\ TimerTick /\ Op(MaxSysOps) /\ UNCHANGED <<storeVars, monitorVars, uiVars>>
  \/ \E resp \in PullResponses :
       /\ Delivered /\ TimerPullDone(resp) /\ Answer(resp)
       /\ UNCHANGED <<storeVars, watcherAlive, stopped, handlers, chan, emitted, lastRead, uiVars>>
  \/ \E from \in {"button", "tray"} : Delivered /\ ManualSync(from) /\ Op(MaxSysOps)
  \/ \E c \in SyncSlots, resp \in PullResponses, readable \in BOOLEAN :
       /\ Delivered /\ SyncNowPullDone(c, resp, readable) /\ Answer(resp)
       /\ UNCHANGED <<storeVars, watcherAlive, stopped, handlers, chan, emitted, lastRead, uiVars>>
  \/ \E c \in SyncSlots, resp \in PushResponses :
       /\ Delivered /\ SyncNowPushDone(c, resp) /\ Step
       /\ UNCHANGED <<storeVars, monitorVars, uiVars>>
  \/ \E c \in CallSlots :
       /\ Delivered /\ ToggleLoad(c) /\ Op(MaxSysOps)
       /\ UNCHANGED <<storeVars, monitorVars, uiVars>>
  \/ \E c \in CallSlots :
       /\ Delivered /\ ToggleStore(c) /\ Step
       /\ UNCHANGED <<storeVars, monitorVars, uiVars>>
  \/ UiSyncEvent /\ Step

SpecSystem == Init /\ [][SystemNext]_vars

\* The way of a clipboard change to the frontend: the watcher's handler, the
\* channel, the emitting thread, and the listener runs with the syncs they
\* start; every thread and every request makes progress.
Detects == OnClipboardChange /\ Step /\ UNCHANGED <<storeVars, engineVars, uiVars>>
Emits == EmitClipboardChanged /\ Step /\ UNCHANGED <<storeVars, engineVars, uiVars>>
ListenerRuns == \E k \in CallSlots, dt \in 0..1 : Delivered /\ ListenerStart(k, dt) /\ Step
ListenerCounts == \E k \in CallSlots : Delivered /\ ListenerAddCount(k) /\ Step
ListenerResumes == \E k \in CallSlots : Delivered /\ ListenerAddResume(k) /\ Step
ListenerReturns == \E k \in CallSlots : Delivered /\ ListenerDone(k) /\ Step
\* The answers of a remote endpoint that holds nothing new, or is not
\* reached; its answers to a POST, with the first index or none.
NothingNew == {resp \in PullResponses : resp.status \in {0, 304}}
Accepted == {resp \in PushResponses : resp.status \in {0, 200} /\ resp.xindex <= 1}
SyncNowPullAnswers ==
  \E c \in SyncSlots, resp \in NothingNew, readable \in BOOLEAN :
    /\ Delivered /\ SyncNowPullDone(c, resp, readable) /\ Step
    /\ UNCHANGED <<storeVars, watcherAlive, stopped, handlers, chan, emitted, lastRead, uiVars>>
SyncNowPushAnswers ==
  \E c \in SyncSlots, resp \in Accepted :
    /\ Delivered /\ SyncNowPushDone(c, resp) /\ Step
    /\ UNCHANGED <<storeVars, monitorVars, uiVars>>

DeliveryNext ==
  \/ \E c \in SysClips :
       UserCopy(c) /\ Op(MaxMonitorOps) /\ UNCHANGED <<storeVars, engineVars, uiVars>>
  \/ Detects
  \/ Emits
  \/ ListenerRuns
  \/ ListenerCounts
  \/ ListenerResumes
  \/ ListenerReturns
  \/ SyncNowPullAnswers
  \/ SyncNowPushAnswers
  \/ EventHandled

\* The same way with the history list in use: a click on a row copies it
\* back to the clipboard. The remote endpoint has nothing new, so every write
\* of the program to the clipboard is a handleCopy.
CopyBackNext ==
  \/ DeliveryNext
  \/ \E e \in history : HandleCopy(e) /\ Op(MaxMonitorOps)

SpecCopyBack == Init /\ [][CopyBackNext]_vars

\* The manual syncs and the frontend's syncStatus: the sync button and the
\* tray start cycles, their requests return, the events are delivered, and
\* the answers of get_sync_status arrive when they arrive.
StatusNext ==
  \/ \E from \in {"button", "tray"} : Delivered /\ ManualSync(from) /\ Op(MaxSysOps)
  \/ \E c \in SyncSlots, resp \in PullResponses, readable \in BOOLEAN :
       /\ Delivered /\ SyncNowPullDone(c, resp, readable) /\ Step
       /\ UNCHANGED <<storeVars, watcherAlive, stopped, handlers, chan, emitted, lastRead, uiVars>>
  \/ \E c \in SyncSlots, resp \in PushResponses :
       /\ Delivered /\ SyncNowPushDone(c, resp) /\ Step
       /\ UNCHANGED <<storeVars, monitorVars, uiVars>>
  \/ UiSyncEventSent /\ Step
  \/ StatusReply /\ Step

SpecStatus == Init /\ [][StatusNext]_vars

SpecDelivery ==
  /\ Init /\ [][DeliveryNext]_vars
  /\ WF_vars(Emits) /\ WF_vars(ListenerRuns) /\ WF_vars(ListenerCounts)
  /\ WF_vars(ListenerResumes) /\ WF_vars(ListenerReturns)
  /\ WF_vars(SyncNowPullAnswers) /\ WF_vars(SyncNowPushAnswers)
  /\ WF_vars(EventHandled)

\* ------------------------------------------------------------------ claims
UnpinnedCount == Cardinality(Unpinned(history))

\* A row inserted in this behaviour (the preloaded rows carry data 0).
Appended == {e \in history : e.data # 0}

\* C1: after each of a sequence of appends made one after another, from a
\* store within the cap, at most MAX_UNPINNED rows have pinned = false.
C1_SeqAppendCap == NoCallInFlight => UnpinnedCount <= MAX_UNPINNED

\* C2: in every reachable state of the store, under any interleaving of
\* append, delete and togglePin, at most MAX_UNPINNED rows have pinned = false.
C2_UnpinnedCap == UnpinnedCount <= MAX_UNPINNED

\* C3: no step of an append removes or unpins a pinned row: every row pinned
\* before the step is still in the store, same id, still pinned, after it.
C3_AppendKeepsPinned ==
  [][addCall' # addCall => \A e \in Pinned(history) : e \in history']_vars

\* An append has completed on a store that held a pinned row older than every
\* unpinned one together with MAX_UNPINNED unpinned rows.
C3_Witness ==
  /\ NoCallInFlight
  /\ Appended # {}
  /\ \E e \in Pinned(history) : e.id = 1
  /\ UnpinnedCount - Cardinality(Appended) >= MAX_UNPINNED

\* C7: a write_clipboard(X) followed by the change notification for it
\* produces no clipboard-changed event: no emitted event carries content
\* that this program itself put on the clipboard.
C7_SelfWriteSuppressed == \A i \in DOMAIN emitted : emitted[i].by # "self"

\* The first kind present on a clipboard, in the order File, Image, Text.
FirstPresentKind(c) ==
  IF c.files THEN "File"
  ELSE IF c.image # "none" THEN "Image"
  ELSE IF c.text THEN "Text"
  ELSE "None"
Kinds == {"File", "Image", "Text"}

\* The result is the first present kind; only when that is an image that does
\* not convert to PNG may it be a failure instead, never another kind.
FollowsPriority(c, k) ==
  \/ k = FirstPresentKind(c)
  \/ FirstPresentKind(c) = "None" /\ k \notin Kinds
  \/ FirstPresentKind(c) = "Image" /\ c.image = "bad" /\ k \notin Kinds

CyclesRunning ==
  (IF timer.pc = "pull" THEN 1 ELSE 0)
    + Cardinality({c \in SyncSlots : snCall[c].pc # "idle"})

\* C4: at most one sync cycle runs at any time, whoever started it, and it
\* holds the flag; a tick that finds the flag set performs no pull.
C4_OneCycle ==
  [][/\ CyclesRunning' <= 1
     /\ CyclesRunning' = 1 => isSyncing'
     /\ (isSyncing /\ timer.pc = "sleep") => timer'.pc = "sleep"]_vars

\* A tick found the flag set while a sync_now cycle was running.
C4_Witness ==
  /\ skipped.tick > 0
  /\ \E c \in SyncSlots : snCall[c].pc # "idle"
  /\ timer.pc = "sleep"

\* C5: a sync_now invoked before the cycle of an earlier one completes starts
\* no cycle, issues no request and changes no SyncState field: one cycle of
\* sync_now executes, whether the calls come from the button or the listener.
C5_SecondSyncNowNoOp ==
  [][/\ \A c \in SyncSlots :
          (snCall[c].pc = "idle" /\ snCall'[c].pc # "idle") => ~isSyncing
     /\ Cardinality({c \in SyncSlots : snCall'[c].pc # "idle"}) <= 1
     /\ skipped'.syncNow # skipped.syncNow =>
          UNCHANGED <<syncStateVars, timer, snCall, syncEvents, clip>>]_vars

\* A sync_now call found the flag set while the cycle of another was at its
\* GET or POST.
C5_Witness ==
  /\ skipped.syncNow > 0
  /\ \E c \in SyncSlots : snCall[c].pc # "idle"
  /\ skipped.tick = 0 /\ timer.pc = "sleep"

\* C6: last_server_index never decreases, whatever the pulls return.
C6_ServerIndexMonotone == [][lastServerIndex' >= lastServerIndex]_vars

\* The answer 304 Not Modified to a GET.
NotModified == GetResponse(304, -1, "missing", TRUE)
PulledCount(q) == Cardinality({i \in DOMAIN q : q[i].type = "Pulled"})

\* C8: a pull that receives 304 leaves last_server_index, the clipboard and
\* the history store unchanged and emits no Pulled event.
C8_NotModifiedNoEffect ==
  [][(\/ TimerPullDone(NotModified)
      \/ \E c \in SyncSlots, readable \in BOOLEAN : SyncNowPullDone(c, NotModified, readable))
       => /\ UNCHANGED <<lastServerIndex, clip, pendingNotifs, history>>
          /\ PulledCount(syncEvents') = PulledCount(syncEvents)]_vars

\* After a pull that stored index 1 and wrote the clipboard, the periodic
\* task made a second pull that changed nothing.
C8_Witness ==
  /\ nOps = 2 /\ skipped = [tick |-> 0, syncNow |-> 0, off |-> 0]
  /\ timer.pc = "sleep" /\ ~isSyncing /\ autoSyncEnabled
  /\ \A c \in CallSlots : tglCall[c].pc = "idle"
  /\ lastServerIndex = 1 /\ clip.by = "self" /\ pendingNotifs = 1
  /\ syncEvents = <<>>

PushedCount(q) == Cardinality({i \in DOMAIN q : q[i].type = "Pushed"})

\* C9: a push that receives a non-2xx answer, or no answer at all, leaves
\* last_local_index unchanged, emits no Pushed event, and an Error event is
\* emitted that carries the failure (for an answer, its status).
C9_PushFailure ==
  [][\A c \in SyncSlots, resp \in PushResponses :
       (~IsSuccess(resp.status) /\ SyncNowPushDone(c, resp))
         => /\ lastLocalIndex' = lastLocalIndex
            /\ PushedCount(syncEvents') = PushedCount(syncEvents)
            /\ \E i \in (Len(syncEvents) + 1)..Len(syncEvents') :
                 /\ syncEvents'[i].type = "Error"
                 /\ syncEvents'[i].message.status = resp.status
                 /\ syncEvents'[i].message.what =
                      (IF resp.status = 0 THEN "transport" ELSE "Server error")]_vars

\* The push of a sync_now cycle (of a clipboard that read_clipboard can read)
\* was answered 500: the events it emitted are Error (status 500), Completed.
C9_Witness ==
  /\ syncEvents = <<ErrorEvent(ServerError(500)), Event("Completed")>>
  /\ ReadClipboard(clip).kind # "Err"
  /\ lastLocalIndex = 0 /\ ~isSyncing

\* The answer 200 to a GET with a payload of kind file and X-Index MaxIndex.
FileResponse == GetResponse(200, MaxIndex, "file", TRUE)

\* C11: a pull that receives a 200 answer of kind file writes no clipboard
\* and ingests nothing into the history, and advances last_server_index to
\* the returned index.
C11_FileAcknowledged ==
  [][(\/ TimerPullDone(FileResponse)
      \/ \E c \in SyncSlots, readable \in BOOLEAN : SyncNowPullDone(c, FileResponse, readable))
       => /\ UNCHANGED <<clip, pendingNotifs, history>>
          /\ lastServerIndex' = FileResponse.xindex]_vars

\* The clipboard content a 200 answer of kind text or screenshot carries.
PulledKind(resp) == IF resp.xtype = "text" THEN "Text" ELSE "Image"
PulledType(resp) == IF resp.xtype = "text" THEN "text" ELSE "screenshot"

\* C12: after a pull that receives a 200 answer of kind text or screenshot
\* with an index above last_server_index, the clipboard holds the pulled
\* content, the history holds it, last_server_index is the index, and a
\* Pulled event has been emitted.
C12_PullApplied ==
  [][\A resp \in PullResponses :
       (/\ resp.status = 200 /\ resp.xtype \in {"text", "screenshot"} /\ resp.valid
        /\ resp.xindex > lastServerIndex
        /\ \/ TimerPullDone(resp)
           \/ \E c \in SyncSlots, readable \in BOOLEAN : SyncNowPullDone(c, resp, readable))
         => /\ ReadClipboard(clip') = [kind |-> PulledKind(resp), data |-> resp.data, by |-> "self"]
            /\ lastServerIndex' = resp.xindex
            /\ PulledCount(syncEvents') = PulledCount(syncEvents) + 1
            /\ \E e \in history' : e.type = PulledType(resp) /\ e.data = resp.data]_vars

\* C13: a pull of the periodic task that ends in a transport error or a
\* non-2xx, non-304 answer leaves last_server_index, the clipboard and the
\* history unchanged, emits no Pulled event, and the task goes on: it releases
\* the flag and waits for its next tick.
C13_PullErrorHarmless ==
  [][\A resp \in PullResponses :
       (resp.status \in {0, 500} /\ TimerPullDone(resp))
         => /\ UNCHANGED <<lastServerIndex, clip, pendingNotifs, history>>
            /\ PulledCount(syncEvents') = PulledCount(syncEvents)
            /\ timer'.pc = "sleep" /\ ~isSyncing'
            /\ errorLog' = errorLog + 1]_vars

\* The periodic task has logged a failed pull and is pulling again.
C13_Witness == errorLog > 0 /\ timer.pc = "pull"

\* C14: an append inserts its row only while fewer than MAX_UNPINNED rows are
\* unpinned: called with exactly MAX_UNPINNED of them it first deletes one row,
\* the unpinned row with the smallest createdAt (among equal ones, the
\* smallest id), and with fewer it deletes nothing.
C14_EvictsOldest ==
  [][/\ history' \ history # {} => Cardinality(Unpinned(history)) < MAX_UNPINNED
     /\ history \ history' # {} =>
          /\ Cardinality(Unpinned(history)) = MAX_UNPINNED
          /\ \E e \in Unpinned(history) :
               /\ history' = history \ {e}
               /\ \A f \in Unpinned(history) : Before(e, f)]_vars

\* e comes before f in a list: later createdAt, and for equal createdAt the
\* greater id.
Newer(e, f) ==
  \/ e.createdAt > f.createdAt
  \/ e.createdAt = f.createdAt /\ e.id > f.id

\* C15: the result of a history query (the live query of SyncClipboard, and
\* getHistory) is ordered by createdAt descending, rows of equal createdAt by
\* id descending; it holds the rows of the store, for the live query the
\* LIVE_LIMIT first of them in that order.
C15_ListOrder ==
  [][view'.seq # view.seq =>
       LET r == view'.rows IN
       /\ \A i, j \in DOMAIN r : i < j => Newer(r[i], r[j])
       /\ {r[i] : i \in DOMAIN r} \subseteq history
       /\ Len(r) = IF view'.query = "live" /\ Cardinality(history) > LIVE_LIMIT
                   THEN LIVE_LIMIT ELSE Cardinality(history)
       /\ \A e \in history \ {r[i] : i \in DOMAIN r} :
            \A i \in DOMAIN r : Newer(r[i], e)]_vars

\* The live query ran on a store of more than LIVE_LIMIT rows, two of the
\* rows it returned having the same createdAt.
C15_Witness ==
  /\ view.seq > 0 /\ view.query = "live"
  /\ Len(view.rows) = LIVE_LIMIT /\ Cardinality(history) > LIVE_LIMIT
  /\ \E i \in DOMAIN view.rows : \E j \in DOMAIN view.rows :
       i < j /\ view.rows[i].createdAt = view.rows[j].createdAt

\* C16: delete(id) removes the row with that id, pinned or not, and leaves
\* every other row as it was; without such a row the store is unchanged.
C16_DeleteFrame ==
  [][\A id \in 1..MaxTargetId :
       DeleteHistoryItem(id)
         => /\ \A e \in history : e.id # id => e \in history'
            /\ \A e \in history' : e \in history /\ e.id # id
            /\ (\A e \in history : e.id # id) => history' = history]_vars

\* A row was deleted that a togglePin in flight had just read as pinned.
C16_Witness ==
  \E q \in CallSlots :
    /\ togCall[q].pc = "update" /\ JSTruthy(togCall[q].pinned)
    /\ \A e \in history : e.id # togCall[q].id

\* C17: togglePin(id) flips the pinned flag of the row with that id: the
\* write of every togglePin call leaves a row that is still there with the
\* opposite of the flag it had just before the write, so that two calls on
\* one id, interleaved or not, restore the starting value.
C17_ToggleFlips ==
  [][\A q \in CallSlots :
       (togCall[q].pc = "update" /\ togCall'[q].pc = "idle")
         => \A e \in history :
              e.id = togCall[q].id
                => \E f \in history' :
                     f.id = e.id /\ JSTruthy(f.pinned) # JSTruthy(e.pinned)]_vars

C19_ToggleAutoSyncFlips ==
  [][\A c \in CallSlots :
       (tglCall[c].pc = "store" /\ tglCall'[c].pc = "idle")
         => autoSyncEnabled' = ~autoSyncEnabled]_vars

\* C20: once stop() on the monitor has returned, no further
\* clipboard-changed event is emitted.
C20_NoEmitAfterStop == [][stopped => emitted' = emitted]_vars

\* C21: start() on a running monitor registers no second handler: one change
\* notification still sends at most one content to the emitting thread, and so
\* produces at most one clipboard-changed event.
C21_OneEventPerChange ==
  [][pendingNotifs' < pendingNotifs => Len(chan') <= Len(chan) + 1]_vars

\* C22: when the image on the clipboard cannot be converted to PNG and a text
\* is present (and no files), read_clipboard returns the text and the change
\* handler sends the text.
ImageFailsTextPresent(c) == c.image = "bad" /\ ~c.files /\ c.text
C22_FallsThrough ==
  [][ImageFailsTextPresent(clip)
       => /\ lastRead'.seq # lastRead.seq => lastRead'.result.kind = "Text"
          /\ pendingNotifs' < pendingNotifs
               => /\ Len(chan') > Len(chan)
                  /\ chan'[Len(chan')].kind = "Text"]_vars

\* C23: with none of files, image and text on the clipboard, read_clipboard
\* fails and returns no content, and a delivered change sends nothing to the
\* emitting thread (no clipboard-changed event) and leaves the watcher running.
NothingPresent(c) == ~c.files /\ c.image = "none" /\ ~c.text
C23_EmptyClipboard ==
  [][NothingPresent(clip)
       => /\ lastRead'.seq # lastRead.seq => lastRead'.result.kind = "Err"
          /\ pendingNotifs' < pendingNotifs
               => chan' = chan /\ emitted' = emitted /\ watcherAlive']_vars

\* The user copied something in no supported format; the change was delivered
\* and read_clipboard was invoked, and no event came of it.
C23_Witness ==
  /\ NothingPresent(clip) /\ clip.data # 0
  /\ pendingNotifs = 0 /\ chan = <<>> /\ emitted = <<>>
  /\ lastRead.seq > 0 /\ lastRead.result.kind = "Err"
  /\ lastRead.result.data = clip.data

\* C24: a tick of the periodic task that finds autoSyncEnabled false issues no
\* request, leaves is_syncing alone, emits no sync event and changes neither
\* index, nor the clipboard, nor the history.
C24_DisabledTickSilent ==
  [][skipped'.off # skipped.off
       => UNCHANGED <<timer, isSyncing, syncEvents, lastServerIndex,
                      lastLocalIndex, clip, history, snCall, errorLog>>]_vars

\* The periodic task ticked while auto sync was switched off.
C24_Witness == skipped.off > 0 /\ ~autoSyncEnabled /\ timer.pc = "sleep"

\* C25: a clipboard-changed event makes the listener start a sync (whose push
\* POSTs the clipboard's content) only when the engine's autoSyncEnabled is
\* true at that moment.
C25_PushOnlyWhenEnabled ==
  [][\A k \in CallSlots :
       (lsn[k].pc # "sync" /\ lsn'[k].pc = "sync") => autoSyncEnabled]_vars

\* C26: a push emits Pushed only after it has set lastLocalIndex to the index
\* its response gave.
C26_PushedAfterIndex ==
  [][\A c \in SyncSlots, resp \in PushResponses :
       (SyncNowPushDone(c, resp) /\ PushedCount(syncEvents') > PushedCount(syncEvents))
         => resp.xindex \in Indices /\ lastLocalIndex' = resp.xindex]_vars

\* C27: every sync cycle that sets is_syncing clears it again, whatever its
\* pull returns, provided each request returns: the flag never stays set.
C27_FlagReleased == isSyncing ~> ~isSyncing

\* A cycle of the periodic task whose pull failed has ended and released the
\* flag.
C27_Witness == ~isSyncing /\ errorLog > 0 /\ timer.pc = "sleep"

\* C28: content that the program itself put on the clipboard (a pull's write)
\* is not pushed back: no clipboard-changed event for such content makes the
\* listener start a sync cycle, whose push would POST it to the remote endpoint.
C28_NoPushBack ==
  [][\A k \in CallSlots :
       (lsn[k].pc # "sync" /\ lsn'[k].pc = "sync") => lsn'[k].by # "self"]_vars

\* C29: no failure to read the clipboard stops the monitor: after every
\* delivered change the watcher is still running.
C29_MonitorSurvives == watcherAlive

\* C30: a listener run in progress does not block detection (the handler can
\* read the clipboard and enqueue while a listener awaits its append or its
\* sync); contents are enqueued at the tail, emitted from the head and handed
\* to a listener run from the head, so in the order of their detection; and
\* every enqueued content is eventually handed to a listener run.
ListenerBusy == \E k \in CallSlots : lsn[k].pc # "idle"
Queued == chan # <<>> \/ emitted # <<>>
C31_ToggleKeepsCycle ==
  [][/\ autoSyncEnabled' # autoSyncEnabled
          => UNCHANGED <<isSyncing, timer, snCall, lastServerIndex, clip, syncEvents>>
     /\ \A resp \in PullResponses :
          (~autoSyncEnabled /\ TimerPullDone(resp))
            => LET r == PullResult(resp) IN
                 /\ ~isSyncing' /\ timer'.pc = "sleep"
                 /\ r.store => lastServerIndex' = r.index
                 /\ (r.write /\ WriteSucceeds(r.content))
                      => clip' = Written(clip, r.content)
                 /\ PulledCount(syncEvents') =
                      PulledCount(syncEvents) + (IF r.pulled THEN 1 ELSE 0)]_vars

\* Auto sync was switched off while the periodic task's pull was in flight.
C31_Witness == timer.pc = "pull" /\ isSyncing /\ ~autoSyncEnabled

\* C32: ids are unique and assigned in increasing order: no two rows share an
\* id, every id in the store is below the key generator's number, which never
\* goes down; a row that enters the store gets an id above every id assigned
\* before, and no step changes the id of a row that stays (togglePin only
\* rewrites pinned).
Ids(h) == {e.id : e \in h}
C32_IdsUniqueIncreasing ==
  /\ [](/\ \A e, f \in history : e.id = f.id => e = f
        /\ \A e \in history : e.id < nextId)
  /\ [][/\ nextId' >= nextId
        /\ \A i \in Ids(history') \ Ids(history) : i >= nextId
        /\ (togCall' # togCall /\ addCall' = addCall) => Ids(history') = Ids(history)]_vars

\* A row of the first ids is gone, one of them was toggled to pinned, and the
\* row appended last carries the newest id.
C32_Witness ==
  /\ \E i \in 1..MaxTargetId : i \notin Ids(history)
  /\ \E e \in Appended : e.id = nextId - 1
  /\ \E e \in history : e.id <= MaxTargetId /\ JSTruthy(e.pinned)
  /\ nextId > MAX_UNPINNED

\* C33: a remote index is consumed once: after a pull that received a 200
\* answer with index n, of whatever type, last_server_index (the X-Index of
\* the next pull) is at least n, so the payload is not requested again.
C33_IndexConsumedOnce ==
  [][\A resp \in PullResponses :
       (/\ resp.status = 200 /\ resp.xindex \in Indices
        /\ \/ TimerPullDone(resp)
           \/ \E c \in SyncSlots, readable \in BOOLEAN : SyncNowPullDone(c, resp, readable))
         => lastServerIndex' >= resp.xindex]_vars

\* C34: copying a row of the history list back to the clipboard appends no
\* row: the insert that ends a listener's addHistoryItem is never for content
\* that the program itself put on the clipboard.
C34_CopyBackAddsNoRow ==
  [][\A k \in CallSlots :
       (lsn[k].pc = "add" /\ addCall[k].pc = "add" /\ addCall'[k].pc = "idle")
         => lsn[k].by # "self"]_vars

\* C35: while a cycle that sync_now started runs and its Started event has
\* been delivered, the frontend's isSyncing is true (the sync button is
\* disabled), whenever the answers of earlier get_sync_status calls arrive.
CycleShown ==
  /\ \E c \in SyncSlots : snCall[c].pc # "idle"
  /\ \A i \in 1..Len(syncEvents) : syncEvents[i].type # "Started"
C35_UiShowsRunningCycle == CycleShown => ui.syncing

\* C36: the list that the live query of SyncClipboard gives holds every
\* pinned row of the store, however many newer rows there are.
C36_PinnedShown ==
  [][(view'.seq # view.seq /\ view'.query = "live")
       => \A e \in Pinned(history) :
            \E i \in DOMAIN view'.rows : view'.rows[i] = e]_vars

====
